---- MODULE Spec2Model ----
(***************************************************************************)
(* A model of smartsheet-bot: discovery.py (the template index),           *)
(* monitor_and_duplicate.py (rollover decision and duplicator) and         *)
(* updater.py (cross-sheet reference propagation), together with the part  *)
(* of the remote sheet store those scripts read and write.                 *)
(*                                                                         *)
(* Spec      discovery runs and monitoring passes over one workspace       *)
(* SpecProp  propagation runs (updater.py main) over two rollup sheets     *)
(* SpecGate  the remote calls of one script and its rate limiter           *)
(* SpecSave  the file writes of discovery runs, with crashes               *)
(* SpecRoll  one call of needs_rollover on one sheet                       *)
(* SpecPatch one call of patched on one formula                            *)
(***************************************************************************)
EXTENDS Integers, Sequences, FiniteSets, TLC

(***************************************************************************)
(* Bounds of the model.                                                    *)
(***************************************************************************)
\* sheets the workspace may hold (three to start with, the rest duplicates)
MaxSheets == 4
\* edits people make to the sheets of the workspace during the runs
MaxEdits == 1
\* remote calls that fail during the runs
MaxFaults == 1

(***************************************************************************)
(* Program constants.                                                      *)
(***************************************************************************)
ERR_CELL_LIMIT == 1
ERR_REF_LIMIT == 95
ERR_CELLCOUNT_LIMIT == 4800000

VARIABLES
    \* ---- the remote workspace ----
    sheets,        \* sheet id -> [name, folder, tag, mod, health]
    listing,       \* the order in which the platform lists the sheets
    \* ---- files of the working directory ----
    mappingFile,   \* mapping.json   [exists, data: group key -> list of ids]
    lastSeenFile,  \* last_seen.json [exists, data: str(id) -> modifiedAt]
    \* ---- monitor_and_duplicate.py main() ----
    monTodo,       \* groups of the running pass whose monitor_group has not run
    monMap,        \* the mapping main() loaded for the running pass
    \* ---- what the runs did (for the properties) ----
    stable,        \* a discovery run met no failure and the remote is as it saw it
    lastDup,       \* the last duplicate_blank call and what it returned
    pending,       \* tagged duplicates no discovery run has seen yet
    bound,         \* the duplicates the last discovery run was the first to see
    edits,         \* edits people made so far
    lastScan,      \* the last discovery run: the cache it loaded, the sheets
                   \* it found and their modifiedAt
    monLog,        \* the groups the running pass has handled: group key ->
                   \* [sheet, trig, failed, dup, src]
    faults,        \* remote calls that failed so far
    \* ---- updater.py ----
    mapping,       \* the mapping main() loaded: group key -> list of JSON ids
    dry,           \* args.dry_run
    rollup,        \* remote rollup sheets: id -> [refs, rows]
    task,          \* one process_rollup task per rollup of the run
    main,          \* main(): "gathering", "returned" or "raised"
    run,           \* the number of the propagation run
    prev,          \* the run before: its dry_run and how its tasks ended
    \* ---- remote calls and the rate limiter ----
    script,        \* the script that runs: "discovery", "monitor", "updater"
    inflight,      \* the remote calls in flight: [site, held]
    level,         \* acquisitions the limiter counts in its window
    \* ---- the working directory during discovery runs ----
    disk,          \* file name -> [gen, whole]
    savePc,        \* where the run is in its saves
    saveRun,       \* the number of the discovery run
    detect,        \* args.detect_rollups
    crashed,       \* the process died
    \* ---- single calls of the pure parts ----
    probe,         \* the arguments of the call
    verdict        \* what the call returned

indexVars == <<sheets, listing, mappingFile, lastSeenFile, monTodo, monMap,
               stable, lastDup, pending, bound, edits, lastScan, monLog>>

propVars == <<mapping, dry, rollup, task, main, run, prev>>

gateVars == <<script, inflight, level>>

saveVars == <<disk, savePc, saveRun, detect, crashed>>

pureVars == <<probe, verdict>>

vars == <<indexVars, faults, propVars, gateVars, saveVars, pureVars>>

(***************************************************************************)
(* Helpers on dicts (functions with a finite domain) and lists.            *)
(***************************************************************************)
EmptyDict == [k \in {} |-> 0]

Put(d, k, v) == [x \in (DOMAIN d) \cup {k} |-> IF x = k THEN v ELSE d[x]]

\* dict.get(k, default)
Get(d, k, default) == IF k \in DOMAIN d THEN d[k] ELSE default

Range(s) == {s[i] : i \in DOMAIN s}

SetMax(S) == CHOOSE x \in S : \A y \in S : y <= x

SetMin(S) == CHOOSE x \in S : \A y \in S : x <= y

(***************************************************************************)
(* Sheet names.  A name is the text stem \o copy, where copy is empty or a *)
(* duplicate marker (" - Copy" in any letter case and whatever follows).   *)
(***************************************************************************)
TemplateStems == {"Budget Template", "BUDGET TEMPLATE"}

CopyMarkers == {" - Copy", " - copy (1)", " - COPY (3)"}

\* 'template' in s.name.lower()
HasTemplateToken(name) == name.stem \in TemplateStems

\* re.sub(r' - Copy.*$', '', name, flags=re.I).strip()
normalise(name) == IF name.copy \in CopyMarkers THEN name.stem
                                                ELSE name.stem \o name.copy

\* the name duplicate_blank gives a copy (the date is the day of the run)
DuplicateName(src_id) ==
    [stem |-> "2026-11-03 Duplicate of " \o ToString(src_id), copy |-> ""]

(***************************************************************************)
(* The health of a sheet, as needs_rollover reads it: err, the cells whose  *)
(* display value starts with '#'; refs, its cross-sheet references; total,  *)
(* sheet.total_row_count; rows, len(sheet.rows); cols, len(sheet.columns).  *)
(***************************************************************************)
Healthy == [err |-> 0, refs |-> 94, total |-> 2400, rows |-> 2400, cols |-> 1999]

Blank == [err |-> 0, refs |-> 0, total |-> 0, rows |-> 0, cols |-> 10]

Degraded == [err |-> 1, refs |-> 0, total |-> 10, rows |-> 10, cols |-> 10]

HealthChoices == {Healthy, Degraded}

InitSheets ==
    (1001 :> [name |-> [stem |-> "Budget Template", copy |-> ""],
              folder |-> 0, tag |-> "", mod |-> 0, health |-> Healthy])
 @@ (2001 :> [name |-> [stem |-> "Sales", copy |-> ""],
              folder |-> 1, tag |-> "", mod |-> 0, health |-> Healthy])
 @@ (2002 :> [name |-> [stem |-> "Sales", copy |-> " - copy (1)"],
              folder |-> 0, tag |-> "", mod |-> 0, health |-> Healthy])

NoDup == [called |-> FALSE, src |-> 0, copyOk |-> FALSE, tagOk |-> FALSE,
          wipeOk |-> FALSE, wipeTried |-> FALSE, ret |-> 0]

NoScan == [ran |-> FALSE, cache |-> EmptyDict, mods |-> EmptyDict]

\* no propagation run
PropIdle ==
    /\ mapping = EmptyDict
    /\ dry = FALSE
    /\ rollup = EmptyDict
    /\ task = EmptyDict
    /\ main = "returned"
    /\ run = 0
    /\ prev = [dry |-> FALSE, pc |-> EmptyDict]

\* no discovery run and no monitoring pass
IndexIdle ==
    /\ sheets = InitSheets
    /\ listing = <<1001, 2001, 2002>>
    /\ mappingFile = [exists |-> FALSE, data |-> EmptyDict]
    /\ lastSeenFile = [exists |-> FALSE, data |-> EmptyDict]
    /\ monTodo = {}
    /\ monMap = EmptyDict
    /\ stable = FALSE
    /\ lastDup = NoDup
    /\ pending = {}
    /\ bound = {}
    /\ edits = 0
    /\ lastScan = NoScan
    /\ monLog = EmptyDict

\* no script issuing remote calls
GateIdle ==
    /\ script = "none"
    /\ inflight = {}
    /\ level = 0

\* a file's content: the run whose data it holds (0: what was there before
\* the first run) and whether that data is all there
Whole(g) == [gen |-> g, whole |-> TRUE]

Torn(g) == [gen |-> g, whole |-> FALSE]

\* no discovery run saving files
SaveIdle ==
    /\ disk = [f \in {} |-> Whole(0)]
    /\ savePc = "idle"
    /\ saveRun = 0
    /\ detect = FALSE
    /\ crashed = FALSE

\* no single call
PureIdle ==
    /\ probe = <<>>
    /\ verdict = <<>>

Init ==
    /\ sheets = InitSheets
    /\ listing \in {<<1001, 2001, 2002>>, <<2002, 1001, 2001>>}
    /\ mappingFile = [exists |-> FALSE, data |-> EmptyDict]
    /\ lastSeenFile = [exists |-> FALSE, data |-> EmptyDict]
    /\ monTodo = {}
    /\ monMap = EmptyDict
    /\ stable = FALSE
    /\ lastDup = NoDup
    /\ pending = {}
    /\ bound = {}
    /\ edits = 0
    /\ lastScan = NoScan
    /\ monLog = EmptyDict
    /\ faults = 0
    /\ PropIdle
    /\ GateIdle
    /\ SaveIdle
    /\ PureIdle

(***************************************************************************)
(* discovery.py                                                            *)
(***************************************************************************)
\* load_cache: a missing or empty file is an empty cache
load_cache(file) == IF file.exists THEN file.data ELSE EmptyDict

\* get_all_sheets_recursive: the sheets of the workspace, then those of each
\* folder; a folder that cannot be read contributes nothing
get_all_sheets_recursive(folderOk) ==
    SelectSeq(listing, LAMBDA s : sheets[s].folder = 0)
    \o (IF folderOk THEN SelectSeq(listing, LAMBDA s : sheets[s].folder # 0)
                    ELSE <<>>)

\* lines 133-148: the group key of a scanned sheet
GroupKey(s, summaryOk) ==
    LET src_id == IF summaryOk THEN sheets[s].tag ELSE ""
    IN  IF src_id # "" THEN src_id
        ELSE IF HasTemplateToken(sheets[s].name) THEN ToString(s)
        ELSE normalise(sheets[s].name)

UnchangedIfCached(since_cache, s, mod) == ToString(s) \in DOMAIN since_cache

\* line 130: the cache holds the sheet's live modifiedAt
Unchanged(since_cache, s, mod) == Get(since_cache, ToString(s), -1) = mod

RECURSIVE build_loop(_, _, _, _, _)
build_loop(all_sheets, i, since_cache, unreadable, acc) ==
    IF i > Len(all_sheets) THEN acc
    ELSE LET s    == all_sheets[i]
             mod  == sheets[s].mod
             seen == Put(acc.last_seen, ToString(s), mod)
         IN  IF Unchanged(since_cache, s, mod)
             THEN build_loop(all_sheets, i + 1, since_cache, unreadable,
                             [acc EXCEPT !.last_seen = seen])
             ELSE LET key == GroupKey(s, s \notin unreadable)
                      grp == Append(Get(acc.mapping, key, <<>>), s)
                  IN  build_loop(all_sheets, i + 1, since_cache, unreadable,
                                 [mapping   |-> Put(acc.mapping, key, grp),
                                  last_seen |-> seen])

build_index(folderOk, since_cache, unreadable) ==
    build_loop(get_all_sheets_recursive(folderOk), 1, since_cache, unreadable,
               [mapping |-> EmptyDict, last_seen |-> EmptyDict])

\* the number of failed calls among the outcomes of a step
Failed(oks) == Cardinality({i \in DOMAIN oks : ~oks[i]})

\* __main__: load_cache, build_index, save_json of both files (the operator
\* starts a discovery run between monitoring passes, not during one)
Discovery ==
    /\ monTodo = {}
    /\ \E folderOk \in BOOLEAN, unreadable \in {{}} \cup {{s} : s \in DOMAIN sheets} :
        LET since_cache == load_cache(lastSeenFile)
            out   == build_index(folderOk, since_cache, unreadable)
            found == Range(get_all_sheets_recursive(folderOk))
            nf    == Failed(<<folderOk>>) + Cardinality(unreadable)
        IN  /\ faults + nf <= MaxFaults
            /\ faults' = faults + nf
            /\ mappingFile' = [exists |-> TRUE, data |-> out.mapping]
            /\ lastSeenFile' = [exists |-> TRUE, data |-> out.last_seen]
            /\ stable' = (nf = 0)
            /\ bound' = {p \in pending : p.new \in found /\ p.new \notin unreadable}
            /\ pending' = {p \in pending : p.new \notin found}
            /\ lastScan' = [ran   |-> TRUE,
                            cache |-> since_cache,
                            mods  |-> [k \in {ToString(x) : x \in found} |->
                                         LET x == CHOOSE y \in found : ToString(y) = k
                                         IN  sheets[x].mod]]
            /\ UNCHANGED <<sheets, listing, monTodo, monMap, lastDup, edits, monLog,
                          propVars, gateVars, saveVars, pureVars>>

\* a person edits a sheet: its modifiedAt moves on and its content changes
Touch ==
    \E s \in DOMAIN sheets, h \in HealthChoices :
        /\ edits < MaxEdits
        /\ monTodo = {}
        /\ edits' = edits + 1
        /\ sheets' = [sheets EXCEPT ![s].mod = @ + 1, ![s].health = h]
        /\ stable' = FALSE
        /\ UNCHANGED <<listing, mappingFile, lastSeenFile, monTodo, monMap,
                       lastDup, pending, bound, faults, lastScan, monLog,
                       propVars, gateVars, saveVars, pureVars>>

(***************************************************************************)
(* monitor_and_duplicate.py                                                *)
(***************************************************************************)
\* the ids a group key may spell
IdSpace == {1001} \cup (2001 .. 2001 + MaxSheets)

\* int(template_id) succeeds
IsNumeric(template_id) == \E n \in IdSpace : ToString(n) = template_id

ParseInt(template_id) == CHOOSE n \in IdSpace : ToString(n) = template_id

\* line 97: (sheet.total_row_count or len(sheet.rows)) * len(sheet.columns)
cell_count(h) == (IF h.total # 0 THEN h.total ELSE h.rows) * h.cols

needs_rollover_above(sheet_id, fetchOk, refsOk) ==
    IF ~fetchOk THEN FALSE
    ELSE LET h == sheets[sheet_id].health
         IN  \/ h.err > ERR_CELL_LIMIT
             \/ (refsOk /\ h.refs > ERR_REF_LIMIT)
             \/ cell_count(h) > ERR_CELLCOUNT_LIMIT

\* needs_rollover: a failed fetch is "no rollover", a failed reference listing
\* counts as no references
needs_rollover(sheet_id, fetchOk, refsOk) ==
    IF ~fetchOk THEN FALSE
    ELSE LET h == sheets[sheet_id].health
         IN  \/ h.err >= ERR_CELL_LIMIT
             \/ (refsOk /\ h.refs >= ERR_REF_LIMIT)
             \/ cell_count(h) >= ERR_CELLCOUNT_LIMIT

\* monitor_group lines 107, 112-116
latest(sids) == SetMax(Range(sids))

original_is_latest(template_id, sids) == latest(sids)

original_sheet_id(template_id, sids) ==
    IF IsNumeric(template_id) THEN ParseInt(template_id)
                              ELSE SetMin(Range(sids))

\* the id the platform gives the next sheet it creates
NewId == SetMax(DOMAIN sheets) + 1

\* duplicate_blank(src_id), called for the group template_id: copy, tag, wipe
duplicate_blank(template_id, src_id, copyOk, tagOk, wipeOk, atFront) ==
    IF ~copyOk
    THEN /\ lastDup' = [called |-> TRUE, src |-> src_id, copyOk |-> FALSE,
                        tagOk |-> FALSE, wipeOk |-> FALSE, wipeTried |-> FALSE,
                        ret |-> 0]
         /\ UNCHANGED <<sheets, listing, pending, stable>>
    ELSE /\ sheets' = Put(sheets, NewId,
                          [name   |-> DuplicateName(src_id),
                           folder |-> 0,
                           tag    |-> IF tagOk THEN ToString(src_id) ELSE "",
                           mod    |-> 0,
                           health |-> IF wipeOk THEN Blank
                                                ELSE sheets[src_id].health])
         /\ listing' = IF atFront THEN <<NewId>> \o listing
                                  ELSE Append(listing, NewId)
         /\ lastDup' = [called |-> TRUE, src |-> src_id, copyOk |-> TRUE,
                        tagOk |-> tagOk, wipeOk |-> wipeOk, wipeTried |-> TRUE,
                        ret |-> NewId]
         /\ pending' = IF tagOk
                        THEN pending \cup {[key |-> template_id, new |-> NewId]}
                        ELSE pending
         /\ stable' = FALSE

CaughtStepsButFetch == {"refs", "copy", "tag", "wipe"}

\* the steps of a monitor_group that run inside a try/except of their own:
\* get_sheet (lines 75, 102-104), list_cross_sheet_references (87-94),
\* copy_sheet (41-46), add_summary_fields (57-60), delete_rows (63-68)
CaughtSteps == {"fetch", "refs", "copy", "tag", "wipe"}

\* the steps one monitor_group took and saw fail: the references are listed
\* when the fetch worked and the error cells did not already decide
\* (line 84); tag and wipe follow a copy that worked
FailedSteps(sheet_id, fetchOk, refsOk, trig, copyOk, tagOk, wipeOk) ==
    {st \in {"fetch"} : ~fetchOk}
    \cup {st \in {"refs"} : /\ fetchOk
                            /\ sheets[sheet_id].health.err < ERR_CELL_LIMIT
                            /\ ~refsOk}
    \cup {st \in {"copy"} : trig /\ ~copyOk}
    \cup {st \in {"tag"} : trig /\ copyOk /\ ~tagOk}
    \cup {st \in {"wipe"} : trig /\ copyOk /\ ~wipeOk}

\* main(): load mapping.json and start one monitor_group per group
MonitorMain ==
    /\ mappingFile.exists
    /\ monTodo = {}
    /\ monMap' = mappingFile.data
    /\ monTodo' = DOMAIN mappingFile.data
    /\ monLog' = EmptyDict
    /\ UNCHANGED <<sheets, listing, mappingFile, lastSeenFile, stable,
                   lastDup, pending, bound, edits, faults, lastScan, propVars,
                   gateVars, saveVars, pureVars>>

\* the end of one monitor_group: an exception no try/except caught leaves
\* gather (line 122) and asyncio.run cancels the groups still to come
Handled(template_id, entry) ==
    /\ monLog' = Put(monLog, template_id, entry)
    /\ monTodo' = IF entry.failed \subseteq CaughtSteps
                  THEN monTodo \ {template_id}
                  ELSE {}

\* monitor_group(template_id, sheets) for one group of the pass
MonitorGroup ==
    \E template_id \in monTodo, fetchOk, refsOk \in BOOLEAN :
        LET sids     == monMap[template_id]
            sheet_id == latest(sids)
            trig     == needs_rollover(sheet_id, fetchOk, refsOk)
        IN  /\ IF trig
               THEN \E copyOk, tagOk, wipeOk, atFront \in BOOLEAN :
                        LET src_id == original_sheet_id(template_id, sids)
                            failed == FailedSteps(sheet_id, fetchOk, refsOk, TRUE,
                                                  copyOk, tagOk, wipeOk)
                        IN  /\ copyOk => /\ src_id \in DOMAIN sheets
                                         /\ Cardinality(DOMAIN sheets) < MaxSheets
                            /\ faults + Cardinality(failed) <= MaxFaults
                            /\ faults' = faults + Cardinality(failed)
                            /\ duplicate_blank(template_id, src_id, copyOk,
                                               tagOk, wipeOk, atFront)
                            /\ Handled(template_id,
                                       [sheet |-> sheet_id, trig |-> TRUE,
                                        failed |-> failed, dup |-> TRUE,
                                        src |-> src_id])
               ELSE LET failed == FailedSteps(sheet_id, fetchOk, refsOk, FALSE,
                                              TRUE, TRUE, TRUE)
                    IN  /\ faults + Cardinality(failed) <= MaxFaults
                        /\ faults' = faults + Cardinality(failed)
                        /\ Handled(template_id,
                                   [sheet |-> sheet_id, trig |-> FALSE,
                                    failed |-> failed, dup |-> FALSE, src |-> 0])
                        /\ UNCHANGED <<sheets, listing, lastDup, pending, stable>>
            /\ UNCHANGED <<mappingFile, lastSeenFile, monMap, bound, edits,
                           lastScan, propVars, gateVars, saveVars, pureVars>>

Next == Discovery \/ Touch \/ MonitorMain \/ MonitorGroup

Spec == Init /\ [][Next]_vars

(***************************************************************************)
(* updater.py                                                              *)
(***************************************************************************)
\* runs of the updater in one behaviour
MaxRuns == 2

\* chunked(it, n=490)
BatchLimit == 490

RollupIds == {9001, 9002}

\* An id as the mapping file holds it.  discovery.py writes JSON numbers
\* (int(s.id), line 150); main() loads whichever file --mapping names, and a
\* file written by hand may hold the ids as strings.  The platform reports
\* sheet ids as numbers.
IntId(n) == [t |-> "int", v |-> n]

StrId(n) == [t |-> "str", v |-> n]

AsJson(m, t) == [k \in DOMAIN m |-> [i \in DOMAIN m[k] |-> [t |-> t, v |-> m[k][i]]]]

MappingChoices == {("1001" :> <<1001, 1002>>),
                   ("1001" :> <<1001, 1002, 1003>>),
                   ("1001" :> <<1001, 11002>>),
                   ("1001" :> <<1002, 1001>>)}

\* the rollup sheets of the runs: cross-sheet references, and rows given as
\* runs of n consecutive rows whose one formula cell holds the tokens f
BudgetRef == [name |-> "BudgetRef", src |-> 1001, range |-> 1]

CostRef == [name |-> "CostRef", src |-> 1001, range |-> 2]

UnusedRef == [name |-> "Unused", src |-> 1001, range |-> 3]

\* a reference to the duplicate 1002 that an earlier run created and that
\* no formula uses
LeftoverRef == [name |-> "BudgetRef-dup-1002", src |-> 1002, range |-> 1]

RollupChoices ==
    {[refs |-> <<BudgetRef>>,
      rows |-> <<[f |-> <<"BudgetRef">>, n |-> 1000]>>],
     [refs |-> <<BudgetRef, UnusedRef, CostRef>>,
      rows |-> <<[f |-> <<"BudgetRef", "CostRef">>, n |-> 1],
                 [f |-> <<>>, n |-> 2],
                 [f |-> <<"CostRef">>, n |-> 1]>>],
     [refs |-> <<BudgetRef, LeftoverRef>>,
      rows |-> <<[f |-> <<"BudgetRef">>, n |-> 2]>>]}

NewTask == [pc |-> "start", err |-> "", report |-> "", nupd |-> 0,
            refs |-> <<>>, rows |-> <<>>, todo |-> <<>>, repl |-> <<>>,
            chunks |-> <<>>, calls |-> <<>>, writes |-> <<>>]

InitProp ==
    /\ IndexIdle
    /\ PureIdle
    /\ faults = 0
    /\ GateIdle
    /\ SaveIdle
    /\ mapping \in {AsJson(m, t) : m \in MappingChoices, t \in {"int", "str"}}
    /\ dry \in BOOLEAN
    /\ rollup \in [RollupIds -> RollupChoices]
    /\ task = [r \in RollupIds |-> NewTask]
    /\ main = "gathering"
    /\ run = 1
    /\ prev = [dry |-> FALSE, pc |-> EmptyDict]

\* ---- formulas: the bracketed tokens of the text, in order ----
Contains(text, tok) == \E i \in DOMAIN text : text[i] = tok

\* text.replace("{old}", "{old}, {new}")
RECURSIVE replace(_, _, _)
replace(text, old, new) ==
    IF text = <<>> THEN <<>>
    ELSE (IF Head(text) = old THEN <<old, new>> ELSE <<Head(text)>>)
         \o replace(Tail(text), old, new)

patch_one_always(out, old, new) == replace(out, old, new)

\* lines 73-74: out if "{new}" in out else out.replace(...)
patch_one(out, old, new) ==
    IF Contains(out, new) THEN out ELSE replace(out, old, new)

\* patched: the inner loop over the new names of one old name
RECURSIVE patch_news(_, _, _)
patch_news(out, old, news) ==
    IF news = <<>> THEN out
    ELSE patch_news(patch_one(out, old, Head(news)), old, Tail(news))

\* patched(text) for the replacement map repl_map (entries in insertion order)
RECURSIVE patched(_, _)
patched(text, repl_map) ==
    IF repl_map = <<>> THEN text
    ELSE patched(patch_news(text, Head(repl_map).old, Head(repl_map).news),
                 Tail(repl_map))

\* set(re.findall(r'\{([^{}]+)\}', " ".join(formulas)))
active_tokens(rows) == UNION {Range(rows[i].f) : i \in DOMAIN rows}

\* ---- the clone phase ----
RECURSIVE Flatten(_)
Flatten(ss) == IF ss = <<>> THEN <<>> ELSE Head(ss) \o Flatten(Tail(ss))

\* the keys of src_to_refs, in insertion order
RECURSIVE SourcesOf(_, _)
SourcesOf(refs, seen) ==
    IF refs = <<>> THEN <<>>
    ELSE IF Head(refs).src \in seen THEN SourcesOf(Tail(refs), seen)
         ELSE <<Head(refs).src>> \o SourcesOf(Tail(refs), seen \cup {Head(refs).src})

\* mapping.get(str(src_id), [])[1:]
dup_ids(src_id) ==
    LET sids == Get(mapping, ToString(src_id), <<>>)
    IN  IF sids = <<>> THEN <<>> ELSE Tail(sids)

\* dup in [r.source_sheet_id for r in refs]: a JSON string never equals the
\* number the platform reports
HasRefTo(refs, dup) == \E i \in DOMAIN refs : IntId(refs[i].src) = dup

\* lines 38-50: the (ref, dup) pairs process_rollup creates a reference for,
\* in the order of its three loops
clone_plan(refs, rows) ==
    LET used == SelectSeq(refs, LAMBDA r : r.name \in active_tokens(rows))
        srcs == SourcesOf(used, {})
        forDup(src, dup) ==
            IF HasRefTo(refs, dup) THEN <<>>
            ELSE LET ref_list == SelectSeq(used, LAMBDA r : r.src = src)
                 IN  [i \in DOMAIN ref_list |-> [ref |-> ref_list[i], dup |-> dup]]
        forSrc(src) == Flatten([j \in DOMAIN dup_ids(src) |->
                                    forDup(src, dup_ids(src)[j])])
    IN  Flatten([i \in DOMAIN srcs |-> forSrc(srcs[i])])

\* s[-4:] of the decimal text of n
Last4(n) ==
    IF n < 10000 THEN ToString(n)
    ELSE ToString((n \div 1000) % 10) \o ToString((n \div 100) % 10)
         \o ToString((n \div 10) % 10) \o ToString(n % 10)

\* f"{ref.name}-dup-{dup[-4:]}": subscripting a number raises TypeError
CanSlice(dup) == dup.t = "str"

new_name(ref, dup) == ref.name \o "-dup-" \o Last4(dup.v)

\* repl_map.setdefault(old, []).append(new)
RECURSIVE add_repl(_, _, _)
add_repl(repl_map, old, new) ==
    IF repl_map = <<>> THEN <<[old |-> old, news |-> <<new>>]>>
    ELSE IF Head(repl_map).old = old
         THEN <<[old |-> old, news |-> Append(Head(repl_map).news, new)]>>
              \o Tail(repl_map)
         ELSE <<Head(repl_map)>> \o add_repl(Tail(repl_map), old, new)

\* ---- the write phase ----
\* lines 77-87: the changed rows, as runs [pos, n, f] of rows pos .. pos+n-1
RECURSIVE changed_rows(_, _, _)
changed_rows(rows, pos, repl_map) ==
    IF rows = <<>> THEN <<>>
    ELSE LET h    == Head(rows)
             newf == patched(h.f, repl_map)
         IN  (IF newf # h.f THEN <<[pos |-> pos, n |-> h.n, f |-> newf]>> ELSE <<>>)
             \o changed_rows(Tail(rows), pos + h.n, repl_map)

RECURSIVE RowCount(_)
RowCount(runs) == IF runs = <<>> THEN 0 ELSE Head(runs).n + RowCount(Tail(runs))

\* chunked(it, n): lists of n rows, the last one shorter, none empty
RECURSIVE chunk_loop(_, _, _, _)
chunk_loop(rest, cur, room, n) ==
    IF rest = <<>> THEN (IF cur = <<>> THEN <<>> ELSE <<cur>>)
    ELSE LET h == Head(rest)
         IN  IF h.n < room
             THEN chunk_loop(Tail(rest), Append(cur, h), room - h.n, n)
             ELSE IF h.n = room
             THEN <<Append(cur, h)>> \o chunk_loop(Tail(rest), <<>>, n, n)
             ELSE <<Append(cur, [h EXCEPT !.n = room])>>
                  \o chunk_loop(<<[h EXCEPT !.n = h.n - room, !.pos = h.pos + room]>>
                                \o Tail(rest), <<>>, n, n)

chunked_wide(it, n) == chunk_loop(it, <<>>, n + 1, n + 1)

chunked(it, n) == chunk_loop(it, <<>>, n, n)

\* lines 90-95: the batches process_rollup sends
WriteBatchesAlways(dryRun, updates) == chunked(updates, BatchLimit)

WriteBatches(dryRun, updates) ==
    IF dryRun THEN <<>> ELSE chunked(updates, BatchLimit)

\* the platform's update_rows: rows pos .. pos+n-1 of the sheet take formula f
RECURSIVE SetRows(_, _, _, _, _)
SetRows(runs, start, pos, n, f) ==
    IF runs = <<>> \/ n = 0 THEN runs
    ELSE LET h   == Head(runs)
             end == start + h.n
         IN  IF pos >= end THEN <<h>> \o SetRows(Tail(runs), end, pos, n, f)
             ELSE LET before == pos - start
                      take   == IF n < end - pos THEN n ELSE end - pos
                      after  == h.n - before - take
                  IN  (IF before > 0 THEN <<[h EXCEPT !.n = before]>> ELSE <<>>)
                      \o <<[f |-> f, n |-> take]>>
                      \o (IF after > 0 THEN <<[h EXCEPT !.n = after]>> ELSE <<>>)
                      \o SetRows(Tail(runs), end, pos + take, n - take, f)

\* adjacent runs with the same formula are one run
RECURSIVE Merge(_)
Merge(runs) ==
    IF Len(runs) < 2 THEN runs
    ELSE IF runs[1].f = runs[2].f
         THEN Merge(<<[f |-> runs[1].f, n |-> runs[1].n + runs[2].n]>>
                    \o SubSeq(runs, 3, Len(runs)))
         ELSE <<runs[1]>> \o Merge(Tail(runs))

RECURSIVE ApplyChunk(_, _)
ApplyChunk(runs, chunk) ==
    IF chunk = <<>> THEN Merge(runs)
    ELSE ApplyChunk(SetRows(runs, 1, Head(chunk).pos, Head(chunk).n, Head(chunk).f),
                    Tail(chunk))

\* lines 65-96 up to the first update_rows: what the task does once its
\* clone loop has ended
after_clone(t) ==
    IF t.repl = <<>>
    THEN [t EXCEPT !.pc = "done", !.report = "nothing"]
    ELSE LET updates == changed_rows(t.rows, 1, t.repl)
             batches == WriteBatches(dry, updates)
         IN  [t EXCEPT !.pc = IF batches = <<>> THEN "done" ELSE "write",
                       !.report = IF dry THEN "dry"
                                  ELSE IF batches = <<>> THEN "updated" ELSE "",
                       !.nupd = RowCount(updates),
                       !.chunks = batches]

PropFrame == UNCHANGED <<indexVars, gateVars, saveVars, pureVars>>

\* lines 28-41: list the references and fetch the sheet
Fetch(r) ==
    /\ main = "gathering"
    /\ task[r].pc = "start"
    /\ \E ok \in BOOLEAN :
        /\ ~ok => faults < MaxFaults
        /\ faults' = IF ok THEN faults ELSE faults + 1
        /\ task' = [task EXCEPT ![r] =
             IF ~ok THEN [@ EXCEPT !.pc = "raised", !.err = "fetch"]
             ELSE LET plan == clone_plan(rollup[r].refs, rollup[r].rows)
                      t    == [@ EXCEPT !.pc = "clone", !.refs = rollup[r].refs,
                                        !.rows = rollup[r].rows, !.todo = plan]
                  IN  IF plan = <<>> THEN after_clone(t) ELSE t]
    /\ UNCHANGED <<mapping, dry, rollup, main, run, prev>>
    /\ PropFrame

\* lines 51-63: one create_cross_sheet_reference call of the clone loop; the
\* platform refuses a name the sheet already has
Clone(r) ==
    /\ main = "gathering"
    /\ task[r].pc = "clone"
    /\ LET e == Head(task[r].todo)
       IN  IF ~CanSlice(e.dup)
           THEN /\ task' = [task EXCEPT ![r].pc = "raised", ![r].err = "TypeError"]
                /\ UNCHANGED <<rollup, faults>>
           ELSE LET name   == new_name(e.ref, e.dup)
                    taken  == \E i \in DOMAIN rollup[r].refs :
                                  rollup[r].refs[i].name = name
                IN  \E ok \in BOOLEAN :
                      /\ taken => ~ok
                      /\ (~ok /\ ~taken) => faults < MaxFaults
                      /\ faults' = IF ok \/ taken THEN faults ELSE faults + 1
                      /\ IF ok
                         THEN /\ rollup' = [rollup EXCEPT ![r].refs =
                                    Append(@, [name |-> name, src |-> e.dup.v,
                                               range |-> e.ref.range])]
                              /\ task' = [task EXCEPT ![r] =
                                    LET t == [@ EXCEPT
                                                !.todo = Tail(@),
                                                !.calls = Append(@, e),
                                                !.repl = add_repl(@, e.ref.name, name)]
                                    IN  IF t.todo = <<>> THEN after_clone(t) ELSE t]
                         ELSE /\ task' = [task EXCEPT ![r].pc = "raised",
                                                      ![r].err = "create",
                                                      ![r].calls = Append(@, e)]
                              /\ UNCHANGED rollup
    /\ UNCHANGED <<mapping, dry, main, run, prev>>
    /\ PropFrame

\* lines 94-96: one update_rows call
Write(r) ==
    /\ main = "gathering"
    /\ task[r].pc = "write"
    /\ \E ok \in BOOLEAN :
        LET chunk == Head(task[r].chunks)
        IN  /\ ~ok => faults < MaxFaults
            /\ faults' = IF ok THEN faults ELSE faults + 1
            /\ IF ok
               THEN /\ rollup' = [rollup EXCEPT ![r].rows = ApplyChunk(@, chunk)]
                    /\ task' = [task EXCEPT ![r] =
                          [@ EXCEPT !.chunks = Tail(@),
                                    !.writes = Append(@, chunk),
                                    !.pc = IF Len(task[r].chunks) = 1
                                           THEN "done" ELSE "write",
                                    !.report = IF Len(task[r].chunks) = 1
                                               THEN "updated" ELSE @]]
               ELSE /\ task' = [task EXCEPT ![r].pc = "raised", ![r].err = "write",
                                            ![r].writes = Append(@, chunk)]
                    /\ UNCHANGED rollup
    /\ UNCHANGED <<mapping, dry, main, run, prev>>
    /\ PropFrame

Finished(t) == t.pc \in {"done", "raised"}

\* line 131: every task returned, gather returns and so does main
Return ==
    /\ main = "gathering"
    /\ \A r \in RollupIds : task[r].pc = "done"
    /\ main' = "returned"
    /\ UNCHANGED <<mapping, dry, rollup, task, run, prev, faults>>
    /\ PropFrame

\* line 131-134: gather passes the first exception on to main, main raises
\* and asyncio.run cancels the tasks that are still running
Teardown ==
    /\ main = "gathering"
    /\ \E r \in RollupIds : task[r].pc = "raised"
    /\ main' = "raised"
    /\ task' = [r \in RollupIds |->
                   IF Finished(task[r]) THEN task[r]
                   ELSE [task[r] EXCEPT !.pc = "cancelled"]]
    /\ UNCHANGED <<mapping, dry, rollup, run, prev, faults>>
    /\ PropFrame

\* the operator runs updater.py again with the same mapping and rollups
NextRun ==
    /\ main # "gathering"
    /\ run < MaxRuns
    /\ run' = run + 1
    /\ prev' = [dry |-> dry, pc |-> [r \in RollupIds |-> task[r].pc]]
    /\ dry' \in BOOLEAN
    /\ main' = "gathering"
    /\ task' = [r \in RollupIds |-> NewTask]
    /\ UNCHANGED <<mapping, rollup, faults>>
    /\ PropFrame

NextProp ==
    \/ \E r \in RollupIds : Fetch(r)
    \/ \E r \in RollupIds : Clone(r)
    \/ \E r \in RollupIds : Write(r)
    \/ Return
    \/ Teardown
    \/ NextRun

SpecProp == InitProp /\ [][NextProp]_vars

(***************************************************************************)
(* The remote calls of the three scripts and the rate limiter.             *)
(***************************************************************************)
\* remote calls in flight at one time
MaxInFlight == 2

\* RATE = AsyncLimiter(250, 60) and AsyncLimiter(300, 60): calls per window
MonitorRate == 250

UpdaterRate == 300

\* the call sites: the script, the SDK operation and whether the call is
\* made through safe() (async with RATE) or directly
MonitorSites ==
    {[mode |-> "monitor", op |-> o, viaSafe |-> TRUE] :
        o \in {"copy_sheet", "update_sheet_summary_fields", "get_sheet",
               "delete_rows", "list_cross_sheet_references"}}

UpdaterSites ==
    {[mode |-> "updater", op |-> o, viaSafe |-> TRUE] :
        o \in {"list_cross_sheet_references", "get_sheet",
               "create_cross_sheet_reference", "update_rows"}}

DiscoverySites ==
    {[mode |-> "discovery", op |-> o, viaSafe |-> FALSE] :
        o \in {"get_workspace", "get_folder", "get_sheet",
               "get_sheet_summary_fields"}}

CallSites == MonitorSites \cup UpdaterSites \cup DiscoverySites

max_rate(mode) == IF mode = "monitor" THEN MonitorRate ELSE UpdaterRate

InitGate ==
    /\ IndexIdle
    /\ PureIdle
    /\ faults = 0
    /\ PropIdle
    /\ SaveIdle
    /\ script \in {"discovery", "monitor", "updater"}
    /\ inflight = {}
    /\ level = 0

GateFrame == UNCHANGED <<indexVars, propVars, saveVars, pureVars, faults, script>>

\* safe(fn, ...): enter RATE, then run the call in the executor
SafeCall ==
    \E site \in CallSites :
        /\ site.mode = script
        /\ site.viaSafe
        /\ Cardinality(inflight) < MaxInFlight
        /\ level < max_rate(script)
        /\ level' = level + 1
        /\ inflight' = inflight \cup {[site |-> site, held |-> TRUE]}
        /\ GateFrame

\* SDK.<...>(...) called as it stands; discovery.py makes one call at a time
DirectCall ==
    \E site \in CallSites :
        /\ site.mode = script
        /\ ~site.viaSafe
        /\ inflight = {}
        /\ inflight' = {[site |-> site, held |-> FALSE]}
        /\ UNCHANGED level
        /\ GateFrame

\* the call returns or raises; either way the async with block is left
CallEnds ==
    \E c \in inflight, ok \in BOOLEAN :
        /\ inflight' = inflight \ {c}
        /\ UNCHANGED level
        /\ GateFrame

\* the limiter's window moves on
Drain ==
    /\ level > 0
    /\ level' = level - 1
    /\ UNCHANGED inflight
    /\ GateFrame

NextGate == SafeCall \/ DirectCall \/ CallEnds \/ Drain

SpecGate == InitGate /\ [][NextGate]_vars

(***************************************************************************)
(* discovery.py: the files a run saves, write by write, and a crash.       *)
(***************************************************************************)
\* discovery runs in one behaviour
MaxSaves == 3

SavedFiles == {"mapping.json", "last_seen.json", "auto_rollup_config.json"}

TmpFiles == {"mapping.tmp", "last_seen.tmp"}

InitSave ==
    /\ IndexIdle
    /\ PureIdle
    /\ faults = 0
    /\ PropIdle
    /\ GateIdle
    /\ disk = [f \in SavedFiles \cup TmpFiles |-> Whole(0)]
    /\ savePc = "mapping:write"
    /\ saveRun = 1
    /\ detect \in BOOLEAN
    /\ crashed = FALSE

SaveFrame == UNCHANGED <<indexVars, propVars, gateVars, pureVars, faults>>

\* the temporary file of save_json: path.with_suffix(".tmp")
TmpOf(path) == IF path = "mapping.json" THEN "mapping.tmp" ELSE "last_seen.tmp"

\* save_json line 31, tmp.write_text begins: the temporary file is opened
\* for writing and holds part of the new data
TmpOpen(path, pc, next) ==
    /\ ~crashed
    /\ savePc = pc
    /\ disk' = [disk EXCEPT ![TmpOf(path)] = Torn(saveRun)]
    /\ savePc' = next
    /\ UNCHANGED <<saveRun, detect, crashed>>
    /\ SaveFrame

\* save_json line 31, tmp.write_text ends: the temporary file is complete
TmpWritten(path, pc, next) ==
    /\ ~crashed
    /\ savePc = pc
    /\ disk' = [disk EXCEPT ![TmpOf(path)] = Whole(saveRun)]
    /\ savePc' = next
    /\ UNCHANGED <<saveRun, detect, crashed>>
    /\ SaveFrame

\* save_json line 32, tmp.replace(path): the rename is atomic
Replace(path, pc, next) ==
    /\ ~crashed
    /\ savePc = pc
    /\ disk' = [disk EXCEPT ![path] = disk[TmpOf(path)]]
    /\ savePc' = next
    /\ UNCHANGED <<saveRun, detect, crashed>>
    /\ SaveFrame

\* save_rollup_config line 116: open(..., "w") truncates the file itself
ConfigOpen ==
    /\ ~crashed
    /\ savePc = "config:open"
    /\ disk' = [disk EXCEPT !["auto_rollup_config.json"] = Torn(saveRun)]
    /\ savePc' = "config:dump"
    /\ UNCHANGED <<saveRun, detect, crashed>>
    /\ SaveFrame

\* save_rollup_config line 117: json.dump and the end of the with block
ConfigDumped ==
    /\ ~crashed
    /\ savePc = "config:dump"
    /\ disk' = [disk EXCEPT !["auto_rollup_config.json"] = Whole(saveRun)]
    /\ savePc' = "done"
    /\ UNCHANGED <<saveRun, detect, crashed>>
    /\ SaveFrame

\* the process dies
Crash ==
    /\ ~crashed
    /\ savePc # "done"
    /\ crashed' = TRUE
    /\ UNCHANGED <<disk, savePc, saveRun, detect>>
    /\ SaveFrame

\* discovery.py is started again, after a run that ended or crashed
NextSave ==
    /\ crashed \/ savePc = "done"
    /\ saveRun < MaxSaves
    /\ saveRun' = saveRun + 1
    /\ savePc' = "mapping:write"
    /\ detect' \in BOOLEAN
    /\ crashed' = FALSE
    /\ UNCHANGED disk
    /\ SaveFrame

NextSaveStep ==
    \/ TmpOpen("mapping.json", "mapping:write", "mapping:writing")
    \/ TmpWritten("mapping.json", "mapping:writing", "mapping:replace")
    \/ Replace("mapping.json", "mapping:replace", "last_seen:write")
    \/ TmpOpen("last_seen.json", "last_seen:write", "last_seen:writing")
    \/ TmpWritten("last_seen.json", "last_seen:writing", "last_seen:replace")
    \/ Replace("last_seen.json", "last_seen:replace",
               IF detect THEN "config:open" ELSE "done")
    \/ ConfigOpen
    \/ ConfigDumped
    \/ Crash
    \/ NextSave

SpecSave == InitSave /\ [][NextSaveStep]_vars

(***************************************************************************)
(* needs_rollover on its own: one call on one sheet (SpecRoll).            *)
(***************************************************************************)
\* the sheets a call may meet: each signal below, at and above its limit
ProbeHealth ==
    [err : {0, 1, 2}, refs : {0, 94, 95}, total : {0, 2400},
     rows : {0, 2399, 2400}, cols : {0, 1999, 2000}]

PureFrame == UNCHANGED <<indexVars, faults, propVars, gateVars, saveVars>>

InitRoll ==
    /\ \E h \in ProbeHealth : sheets = [InitSheets EXCEPT ![1001].health = h]
    /\ listing = <<1001, 2001, 2002>>
    /\ mappingFile = [exists |-> FALSE, data |-> EmptyDict]
    /\ lastSeenFile = [exists |-> FALSE, data |-> EmptyDict]
    /\ monTodo = {}
    /\ monMap = EmptyDict
    /\ stable = FALSE
    /\ lastDup = NoDup
    /\ pending = {}
    /\ bound = {}
    /\ edits = 0
    /\ lastScan = NoScan
    /\ monLog = EmptyDict
    /\ faults = 0
    /\ PropIdle
    /\ GateIdle
    /\ SaveIdle
    /\ probe \in [sheet_id : {1001}, fetchOk : BOOLEAN, refsOk : BOOLEAN]
    /\ verdict = <<>>

\* await needs_rollover(sheet_id)
Evaluate ==
    /\ verdict = <<>>
    /\ verdict' = <<needs_rollover(probe.sheet_id, probe.fetchOk, probe.refsOk)>>
    /\ UNCHANGED probe
    /\ PureFrame

NextRoll == Evaluate

SpecRoll == InitRoll /\ [][NextRoll]_vars

(***************************************************************************)
(* patched on its own: one formula and one replacement map (SpecPatch).    *)
(***************************************************************************)
\* tokens in the formula of the call
MaxFormula == 3

\* the references process_rollup may have cloned, and the duplicates it
\* cloned them for
PatchRefs == {BudgetRef, CostRef}

PatchDups == {StrId(1002), StrId(1003)}

\* the (ref, dup) pairs of a clone loop that created one or two references
ClonePairs == [ref : PatchRefs, dup : PatchDups]

CloneRuns ==
    {<<>>} \cup {<<a>> : a \in ClonePairs}
           \cup {c \in ClonePairs \X ClonePairs : c[1] # c[2]}

\* the repl_map the clone loop builds (line 63)
RECURSIVE repl_of(_, _)
repl_of(pairs, repl_map) ==
    IF pairs = <<>> THEN repl_map
    ELSE repl_of(Tail(pairs),
                 add_repl(repl_map, Head(pairs).ref.name,
                          new_name(Head(pairs).ref, Head(pairs).dup)))

\* the names a formula may hold: the references and their clones
PatchTokens ==
    {r.name : r \in PatchRefs} \cup {new_name(a.ref, a.dup) : a \in ClonePairs}

Formulas == UNION {[1 .. n -> PatchTokens] : n \in 0 .. MaxFormula}

InitPatch ==
    /\ IndexIdle
    /\ faults = 0
    /\ PropIdle
    /\ GateIdle
    /\ SaveIdle
    /\ probe \in [text : Formulas, repl_map : {repl_of(c, <<>>) : c \in CloneRuns}]
    /\ verdict = <<>>

\* patched(cell.formula), then the loop of lines 77-87 over a row that holds
\* the result
Patch ==
    /\ verdict = <<>>
    /\ LET once == patched(probe.text, probe.repl_map)
       IN  verdict' = [once   |-> once,
                       twice  |-> patched(once, probe.repl_map),
                       queued |-> changed_rows(<<[f |-> once, n |-> 1]>>, 1,
                                               probe.repl_map)]
    /\ UNCHANGED probe
    /\ PureFrame

NextPatch == Patch

SpecPatch == InitPatch /\ [][NextPatch]_vars

(***************************************************************************)
(* Properties of discovery and monitoring (specification Spec).            *)
(***************************************************************************)
\* C1: a discovery run that meets no failure and follows, with no remote
\* change in between, a discovery run that met no failure either, writes the
\* mapping.json and the last_seen.json that the earlier run wrote.
C1_DiscoveryIdempotent ==
    [][(stable /\ stable') =>
          (mappingFile' = mappingFile /\ lastSeenFile' = lastSeenFile)]_vars

\* C2: every tagged duplicate that a discovery run finds (and whose summary
\* it reads) is placed in the group monitor_group rolled over, and is the
\* latest instance of that group.
C2_DuplicateJoinsItsGroup ==
    \A p \in bound :
        /\ p.key \in DOMAIN mappingFile.data
        /\ p.new \in Range(mappingFile.data[p.key])
        /\ latest(mappingFile.data[p.key]) = p.new

\* the part of C2 that the code keeps: groups whose key is a sheet id
C2_NumericGroupsRebind ==
    \A p \in bound :
        IsNumeric(p.key) =>
            /\ p.key \in DOMAIN mappingFile.data
            /\ latest(mappingFile.data[p.key]) = p.new

\* C4: duplicate_blank returns no instance id when one of its three steps
\* failed, and a failed tag step is the last step it takes.
C4_FailureIsReported ==
    lastDup.called =>
        /\ (~lastDup.copyOk \/ ~lastDup.tagOk \/ ~lastDup.wipeOk) => lastDup.ret = 0
        /\ ~lastDup.tagOk => ~lastDup.wipeTried

\* C11: after every discovery run, including a run that started from a
\* change cache that was not empty, every sheet the run discovered (the
\* sheets its last_seen.json records) belongs to exactly one group of the
\* mapping.json the run wrote.
C11_EverySheetInOneGroup ==
    mappingFile.exists =>
        \A s \in DOMAIN sheets :
            ToString(s) \in DOMAIN lastSeenFile.data =>
                Cardinality({k \in DOMAIN mappingFile.data :
                                s \in Range(mappingFile.data[k])}) = 1

\* the last discovery run appended the sheet with this str(id) to a group
Scanned(k) ==
    \E g \in DOMAIN mappingFile.data :
        \E i \in DOMAIN mappingFile.data[g] : ToString(mappingFile.data[g][i]) = k

\* the live modifiedAt the last discovery run saw differs from the cached one
Differs(k) ==
    k \notin DOMAIN lastScan.cache \/ lastScan.cache[k] # lastScan.mods[k]

\* C12: a sheet that a discovery run discovered was assigned to a group by
\* that run if and only if its live modifiedAt differed from the value the
\* loaded change cache held for its id (no value counts as differing), and
\* the change cache the run wrote holds the live modifiedAt of every sheet
\* it discovered, scanned or skipped.
C12_ScannedIffChanged ==
    lastScan.ran =>
        \A k \in DOMAIN lastScan.mods :
            /\ Scanned(k) <=> Differs(k)
            /\ k \in DOMAIN lastSeenFile.data
            /\ lastSeenFile.data[k] = lastScan.mods[k]

\* a discovery run that skipped one cached sheet and scanned another, whose
\* cached modifiedAt was stale
C12_Witness ==
    /\ lastScan.ran
    /\ \E k \in DOMAIN lastScan.mods : ~Differs(k) /\ ~Scanned(k)
    /\ \E k \in DOMAIN lastScan.mods :
          k \in DOMAIN lastScan.cache /\ Differs(k) /\ Scanned(k)

\* C13: a monitoring pass handles every group of the mapping it loaded: no
\* failed fetch, reference listing, copy, tag or wipe of one group stops
\* the pass before the other groups are evaluated, every group whose
\* evaluation asked for a rollover had duplicate_blank called, and a group
\* whose sheet could not be fetched is not rolled over.
C13_PassRunsToCompletion ==
    /\ monTodo \cup DOMAIN monLog = DOMAIN monMap
    /\ \A k \in DOMAIN monLog :
          /\ monLog[k].trig => monLog[k].dup
          /\ "fetch" \in monLog[k].failed => ~monLog[k].trig /\ ~monLog[k].dup

\* a finished pass in which a step failed for one group and another group
\* was rolled over
C13_Witness ==
    /\ monTodo = {}
    /\ \E k1, k2 \in DOMAIN monLog :
          /\ k1 # k2
          /\ monLog[k1].failed # {}
          /\ monLog[k2].trig /\ monLog[k2].dup /\ monLog[k2].failed = {}
          /\ lastDup.ret \in DOMAIN sheets

Probed == sheets[probe.sheet_id].health

\* rowCount x columnCount of the sheet of the call
ProbedCells ==
    (IF Probed.total # 0 THEN Probed.total ELSE Probed.rows) * Probed.cols

\* C14 as stated: when the fetch succeeds, needs_rollover returns true if
\* and only if the sheet has at least ERR_CELL_LIMIT error cells, or at
\* least ERR_REF_LIMIT cross-sheet references, or at least
\* ERR_CELLCOUNT_LIMIT cells.
C14_TrueIffASignalTrips ==
    (verdict # <<>> /\ probe.fetchOk) =>
        (verdict[1] <=> \/ Probed.err >= ERR_CELL_LIMIT
                        \/ Probed.refs >= ERR_REF_LIMIT
                        \/ ProbedCells >= ERR_CELLCOUNT_LIMIT)

\* C14, amended: when the fetch succeeds, needs_rollover returns true if
\* and only if the sheet has at least ERR_CELL_LIMIT error cells, or the
\* reference listing succeeds and reports at least ERR_REF_LIMIT
\* references (a listing that fails counts as no reference), or the sheet
\* has at least ERR_CELLCOUNT_LIMIT cells; with limit 1, one error cell is
\* enough and no error cell with no other signal is not.
C14_TrueIffAReadSignalTrips ==
    (verdict # <<>> /\ probe.fetchOk) =>
        /\ verdict[1] <=> \/ Probed.err >= ERR_CELL_LIMIT
                          \/ (probe.refsOk /\ Probed.refs >= ERR_REF_LIMIT)
                          \/ ProbedCells >= ERR_CELLCOUNT_LIMIT
        /\ (ERR_CELL_LIMIT = 1 /\ Probed.err = 1) => verdict[1]
        /\ (/\ Probed.err = 0
            /\ Probed.refs < ERR_REF_LIMIT
            /\ ProbedCells < ERR_CELLCOUNT_LIMIT) => ~verdict[1]

\* a call on a sheet with one error cell and nothing else, which answered
\* true
C14_Witness ==
    /\ verdict = <<TRUE>>
    /\ probe.fetchOk
    /\ Probed.err = 1
    /\ Probed.refs < ERR_REF_LIMIT
    /\ ProbedCells < ERR_CELLCOUNT_LIMIT

(***************************************************************************)
(* Properties of patched (specification SpecPatch).                        *)
(***************************************************************************)
\* C16: patched leaves a formula that already holds the token of a new
\* name unchanged for that name, and a formula that was patched comes back
\* unchanged when it is patched again with the same replacement map, so
\* that its row is not queued for write-back.
C16_PatchIsIdempotent ==
    verdict # <<>> =>
        /\ \A i \in DOMAIN probe.repl_map :
              \A j \in DOMAIN probe.repl_map[i].news :
                  LET e == probe.repl_map[i]
                  IN  Contains(probe.text, e.news[j]) =>
                          patched(probe.text,
                                  <<[old |-> e.old, news |-> <<e.news[j]>>]>>)
                              = probe.text
        /\ verdict.twice = verdict.once
        /\ verdict.queued = <<>>

\* a formula that the first patch changed and that already held one of the
\* new tokens
C16_Witness ==
    /\ verdict # <<>>
    /\ verdict.once # probe.text
    /\ \E i \in DOMAIN probe.repl_map :
          /\ Contains(probe.text, probe.repl_map[i].old)
          /\ \E j \in DOMAIN probe.repl_map[i].news :
                Contains(probe.text, probe.repl_map[i].news[j])
    /\ verdict.twice = verdict.once

(***************************************************************************)
(* Properties of propagation (specification SpecProp).                     *)
(***************************************************************************)
RemoteFailure == {"fetch", "create", "write"}

\* C3: when updater.py runs twice in a row, not dry, with the same mapping
\* and no remote call failing, a process_rollup of the second run that
\* follows a finished process_rollup of the first run on the same rollup
\* creates no reference, writes no row and reports "nothing to update".
C3_SecondRunIdle ==
    (run >= 2 /\ ~dry /\ ~prev.dry /\ faults = 0) =>
        \A r \in RollupIds :
            (prev.pc[r] \in {"done", "raised"} /\ Finished(task[r])) =>
                /\ task[r].report = "nothing"
                /\ task[r].calls = <<>>
                /\ task[r].writes = <<>>

\* C5: a process_rollup that a failing create_cross_sheet_reference ended
\* has attempted every other reference of its plan and has left no created
\* reference without its formulas written back.
C5_CloneFailureIsAbsorbed ==
    \A r \in RollupIds :
        (task[r].pc = "raised" /\ task[r].err = "create") =>
            /\ Len(task[r].todo) = 1
            /\ task[r].repl = <<>>

\* C6: when an update_rows batch failed for one rollup, no other rollup of
\* the run is stopped before it is done.
C6_WriteFailureIsLocal ==
    (\E r \in RollupIds : task[r].pc = "raised" /\ task[r].err = "write") =>
        \A q \in RollupIds : task[q].pc # "cancelled"

\* the duplicates of source S in the mapping, for a group that lists its
\* template S first
DuplicatesOf(S) ==
    LET sids == Get(mapping, ToString(S), <<>>)
    IN  IF sids # <<>> /\ Head(sids).v = S THEN {d \in Range(sids) : d.v # S}
                                           ELSE {}

\* every occurrence of token old in the formula has token new after it
Follows(f, old, new) ==
    \A k \in DOMAIN f : f[k] = old => \E j \in DOMAIN f : j > k /\ f[j] = new

\* C7: after a process_rollup that was not dry and met no remote failure,
\* for every active reference R of the fetched rollup and every duplicate D
\* of R's source (in a group that lists the source first) that the fetched
\* rollup had no reference to, the rollup has
\* a reference named R-dup-<last digits of D> pointing at D with R's range,
\* and every formula with {R} has the new token after it.
C7_ClonesAndRewrites ==
    \A r \in RollupIds :
        (~dry /\ Finished(task[r]) /\ task[r].err \notin RemoteFailure) =>
            \A i \in DOMAIN task[r].refs :
                LET R == task[r].refs[i]
                IN  R.name \in active_tokens(task[r].rows) =>
                    \A D \in DuplicatesOf(R.src) :
                        (\A j \in DOMAIN task[r].refs : task[r].refs[j].src # D.v) =>
                            LET new == R.name \o "-dup-" \o Last4(D.v)
                            IN  /\ \E j \in DOMAIN rollup[r].refs :
                                      rollup[r].refs[j] =
                                          [name |-> new, src |-> D.v, range |-> R.range]
                                /\ \A k \in DOMAIN rollup[r].rows :
                                      Follows(rollup[r].rows[k].f, R.name, new)

\* pieces of the same formula that follow each other row by row are one run
RECURSIVE JoinRuns(_)
JoinRuns(runs) ==
    IF Len(runs) < 2 THEN runs
    ELSE IF runs[1].f = runs[2].f /\ runs[1].pos + runs[1].n = runs[2].pos
         THEN JoinRuns(<<[runs[1] EXCEPT !.n = runs[1].n + runs[2].n]>>
                       \o SubSeq(runs, 3, Len(runs)))
         ELSE <<runs[1]>> \o JoinRuns(Tail(runs))

\* C17: a process_rollup that is not dry and has N changed rows issues its
\* update_rows calls in order, each with BatchLimit rows except the last of
\* the ceil(N / BatchLimit) calls, which has the rest; when it has run to
\* its end it has issued exactly ceil(N / BatchLimit) calls, which together
\* carry every changed row once, in the order of the sheet.
C17_BatchesCoverChangedRows ==
    ~dry =>
        \A r \in RollupIds :
            LET t == task[r]
                N == t.nupd
                k == (N + BatchLimit - 1) \div BatchLimit
            IN  /\ Len(t.writes) <= k
                /\ \A i \in DOMAIN t.writes :
                      RowCount(t.writes[i]) =
                          IF i < k THEN BatchLimit ELSE N - BatchLimit * (k - 1)
                /\ t.report = "updated" =>
                      /\ Len(t.writes) = k
                      /\ JoinRuns(Flatten(t.writes))
                            = JoinRuns(changed_rows(t.rows, 1, t.repl))

\* a process_rollup that wrote 1000 changed rows in calls of 490, 490 and
\* 20 rows
C17_Witness ==
    /\ ~dry
    /\ \E r \in RollupIds :
          /\ task[r].report = "updated"
          /\ task[r].nupd = 1000
          /\ Len(task[r].writes) = 3
          /\ RowCount(task[r].writes[1]) = 490
          /\ RowCount(task[r].writes[2]) = 490
          /\ RowCount(task[r].writes[3]) = 20

\* C18: once a process_rollup that is not dry has run to its end with no
\* remote failure, whatever runs came before it, every formula of the
\* rollup that holds the token of a reference to a source S also holds,
\* for every duplicate D of S in the mapping (in a group that lists S
\* first), the token of a reference that points at D.
C18_FormulasReachEveryDuplicate ==
    \A r \in RollupIds :
        (~dry /\ task[r].pc = "done" /\ task[r].err \notin RemoteFailure) =>
            \A i \in DOMAIN rollup[r].refs, k \in DOMAIN rollup[r].rows :
                LET R == rollup[r].refs[i]
                    f == rollup[r].rows[k].f
                IN  Contains(f, R.name) =>
                        \A D \in DuplicatesOf(R.src) :
                            \E j \in DOMAIN rollup[r].refs :
                                /\ rollup[r].refs[j].src = D.v
                                /\ Contains(f, rollup[r].refs[j].name)

\* C19: for every source S that an active reference of a fetched rollup
\* points at, the sheets process_rollup goes through to clone references
\* for are the instances of S's group in the mapping other than S itself,
\* wherever S stands in the group's list.
C19_ClonesForEveryOtherInstance ==
    \A r \in RollupIds :
        \A i \in DOMAIN task[r].refs :
            LET R == task[r].refs[i]
            IN  R.name \in active_tokens(task[r].rows) =>
                    {d.v : d \in Range(dup_ids(R.src))}
                      = {d.v : d \in Range(Get(mapping, ToString(R.src), <<>>))}
                            \ {R.src}

\* C20: while a dry run of updater.py is under way, no step of a
\* process_rollup changes the rollup sheets: their cross-sheet references
\* and their formulas stay as they were.
C20_DryRunLeavesRemoteUnchanged ==
    [][(dry /\ main = "gathering") => rollup' = rollup]_vars

\* C8: a dry run issues no update_rows call.
C8_DryRunNeverWrites ==
    dry => \A r \in RollupIds : task[r].writes = <<>>

\* a dry process_rollup has reported rows that would be updated
C8_Witness ==
    dry /\ \E r \in RollupIds : task[r].report = "dry" /\ task[r].nupd > 0
                                  /\ task[r].pc = "done"

(***************************************************************************)
(* Properties of the remote calls (SpecGate) and of the saves (SpecSave).  *)
(***************************************************************************)
\* C9: every remote call in flight, of whichever script, is made inside an
\* acquisition of the script's rate limiter.
C9_EveryCallIsLimited ==
    \A c \in inflight : c.held

\* C10: whenever the process may crash, mapping.json, last_seen.json and
\* auto_rollup_config.json each hold the whole of their previous or of their
\* new content.
C10_NoTornFile ==
    \A f \in SavedFiles : f \in DOMAIN disk => disk[f].whole

\* the part of C10 that the code keeps: the two files save_json writes
C10_SaveJsonIsAtomic ==
    \A f \in {"mapping.json", "last_seen.json"} :
         f \in DOMAIN disk => disk[f].whole

====
